---- MODULE Spec2Model ----
(***************************************************************************)
(* Timeline compositor and frame scheduler of the battle recap video       *)
(* generator (scripts/generate_battle_video.py): main()'s batch loop and   *)
(* generate_video()'s event indexing, presentation-state tracking, frame   *)
(* scheduling, scratch storage and encoder invocation.                     *)
(***************************************************************************)
EXTENDS Integers, Sequences, FiniteSets, TLC

\* ---- bounds of the model ------------------------------------------------
MaxReplays == 2
MaxSamples == 2
MaxHighlights == 2
MaxEvents == 1
MaxLog == 3

\* ---- program constants --------------------------------------------------
FPS == 30
HOLD_FRAMES_PER_GAME_FRAME == 45
INTRO_FRAMES == FPS * 3
OUTRO_FRAMES == FPS * 4
HL_TOLERANCE == 5000
KILL_TOLERANCE == 3000
KILL_FLASH_PEAK == 80
KILL_FLASH_DECAY == 4
DECISION_PANEL_CAP == 2
DEFAULT_DURATION == 3000

\* ---- input alphabet -----------------------------------------------------
Missing == 0 - 1
SampleTimes == {3000, 9000}
HlKinds == {<<0, 1000>>, <<4000, 6000>>}
KillTimes == {1000}
EventTypes == {"kill", "hit"}
LogTypes == {"decision", "damage"}

SeqsUpTo(S, n) == UNION {[1..k -> S] : k \in 0..n}

IsNonDecreasing(s) == \A k \in 1..(Len(s) - 1) : s[k] <= s[k + 1]

\* a sample of replay["frames"]; agents and projectiles are carried by the
\* sample's identity (its index and timestamp)
SampleLists ==
    {[k \in 1..Len(s) |-> [timestamp |-> s[k]]] :
        s \in {t \in SeqsUpTo(SampleTimes, MaxSamples) : IsNonDecreasing(t)}}

\* id is the record's position in its input list and stands for its payload
\* (title, description / agent, action, reasoning)
HighlightLists ==
    {[k \in 1..Len(s) |-> [id |-> k, timestamp |-> s[k][1], duration |-> s[k][2]]] :
        s \in SeqsUpTo(HlKinds, MaxHighlights)}

EventLists ==
    {[k \in 1..Len(s) |-> [id |-> k, type |-> s[k][1], timestamp |-> s[k][2]]] :
        s \in SeqsUpTo(EventTypes \X KillTimes, MaxEvents)}

LogEntries == {<<"decision", 0>>, <<"decision", 1>>, <<"damage", 0>>}

LogLists ==
    {[k \in 1..Len(s) |-> [id |-> k, type |-> s[k][1], tick |-> s[k][2]]] :
        s \in SeqsUpTo(LogEntries, MaxLog)}

\* replays of the batch: every list of samples with the event records of at
\* most one collection, and the replays that carry all three collections
\* with one record each
OneCollection(h, e, l) ==
    \/ e = <<>> /\ l = <<>>
    \/ h = <<>> /\ l = <<>>
    \/ h = <<>> /\ e = <<>>

OneEach(h, e, l) == Len(h) = 1 /\ Len(e) = 1 /\ Len(l) = 1

WellFormedCollections ==
    {x \in HighlightLists \X EventLists \X LogLists :
        OneCollection(x[1], x[2], x[3]) \/ OneEach(x[1], x[2], x[3])}

\* collections with a record that lacks its timestamp or tick
MalformedCollections ==
    {<< <<[id |-> 1, timestamp |-> Missing, duration |-> 1000]>>, <<>>, <<>> >>,
     << <<[id |-> 1, timestamp |-> Missing, duration |-> 1000],
          [id |-> 2, timestamp |-> 4000, duration |-> 6000]>>, <<>>, <<>> >>,
     << <<>>, <<[id |-> 1, type |-> "kill", timestamp |-> Missing]>>, <<>> >>,
     << <<>>, <<>>, <<[id |-> 1, type |-> "decision", tick |-> Missing]>> >>}

Replays ==
    {[frames |-> f, highlights |-> hel[1], events |-> hel[2], combatLog |-> hel[3]] :
        f \in SampleLists, hel \in WellFormedCollections \cup MalformedCollections}

NoReplay == [frames |-> <<>>, highlights |-> <<>>, events |-> <<>>, combatLog |-> <<>>]

NoHighlight == [id |-> 0, timestamp |-> 0, duration |-> 0]

\* ---- helpers ------------------------------------------------------------
Abs(x) == IF x < 0 THEN 0 - x ELSE x

Max(a, b) == IF a >= b THEN a ELSE b

Min(a, b) == IF a <= b THEN a ELSE b

MinOf(S) == CHOOSE x \in S : \A y \in S : x <= y

\* dict.get(key, default): a record that lacks the key yields the default
Get(v, default) == IF v = Missing THEN default ELSE v

\* ---- EventIndex (generate_video, lines 573-590) -------------------------
\* hl_timeline[ts] = (hl, dur): a dict keeps the position of a key's first
\* insertion and the value of its last assignment
\* a timestamp already in the index keeps its first record
TimelinePut_FirstWins(tl, ts, hl, dur) ==
    IF \E k \in DOMAIN tl : tl[k].ts = ts
    THEN tl
    ELSE Append(tl, [ts |-> ts, hl |-> hl, dur |-> dur])

TimelinePut(tl, ts, hl, dur) ==
    IF \E k \in DOMAIN tl : tl[k].ts = ts
    THEN [k \in DOMAIN tl |->
            IF tl[k].ts = ts THEN [ts |-> ts, hl |-> hl, dur |-> dur] ELSE tl[k]]
    ELSE Append(tl, [ts |-> ts, hl |-> hl, dur |-> dur])

RECURSIVE index_highlights(_)
index_highlights(highlights) ==
    IF highlights = <<>> THEN <<>>
    ELSE LET n == Len(highlights)
             hl == highlights[n]
         IN  TimelinePut(index_highlights(SubSeq(highlights, 1, n - 1)),
                         Get(hl.timestamp, 0), hl, Get(hl.duration, DEFAULT_DURATION))

\* decisions_by_tick[tick].append(entry) for the entries of type "decision"
DecisionPut(d, tick, entry) ==
    IF tick \in DOMAIN d
    THEN [d EXCEPT ![tick] = Append(@, entry)]
    ELSE [t \in (DOMAIN d) \cup {tick} |-> IF t = tick THEN <<entry>> ELSE d[t]]

RECURSIVE index_decisions(_)
index_decisions(combat_log) ==
    IF combat_log = <<>> THEN [t \in {} |-> <<>>]
    ELSE LET n == Len(combat_log)
             entry == combat_log[n]
             rest == index_decisions(SubSeq(combat_log, 1, n - 1))
         IN  IF entry.type = "decision"
             THEN DecisionPut(rest, Get(entry.tick, 0), entry)
             ELSE rest

\* the type filter is missing: every event is taken for a kill
index_kills_AnyType(events) ==
    [k \in 1..Len(events) |-> [ts |-> Get(events[k].timestamp, 0), evt |-> events[k]]]

\* kill_events = [(e.get("timestamp", 0), e) for e in events if type == "kill"]
index_kills(events) ==
    LET kills == SelectSeq(events, LAMBDA e : e.type = "kill")
    IN  [k \in 1..Len(kills) |-> [ts |-> Get(kills[k].timestamp, 0), evt |-> kills[k]]]

\* ---- PresentationStateTracker (generate_video, lines 618-641) -----------
\* the scan of hl_timeline.items(): the first entry within the tolerance is
\* taken and the scan stops (break)
HighlightMatches(ts, tl) == {k \in DOMAIN tl : Abs(ts - tl[k].ts) < HL_TOLERANCE}

\* the scan does not stop at the first match: the last match is kept
HighlightScan_LastMatch(ts, tl, ah, ah_end) ==
    IF HighlightMatches(ts, tl) = {}
    THEN [hl |-> ah, end |-> ah_end]
    ELSE LET k == CHOOSE x \in HighlightMatches(ts, tl) :
                        \A y \in HighlightMatches(ts, tl) : y <= x
         IN  [hl |-> tl[k].hl, end |-> ts + tl[k].dur]

HighlightScan(ts, tl, ah, ah_end) ==
    IF HighlightMatches(ts, tl) = {}
    THEN [hl |-> ah, end |-> ah_end]
    ELSE LET k == MinOf(HighlightMatches(ts, tl))
         IN  [hl |-> tl[k].hl, end |-> ts + tl[k].dur]

\* the highlight is cleared as soon as the end-time is reached
HighlightExpire_AtEnd(ts, ah, ah_end) ==
    IF ah # NoHighlight /\ ts >= ah_end THEN NoHighlight ELSE ah

\* the expiry test is missing
HighlightExpire_Never(ts, ah, ah_end) == ah

HighlightExpire(ts, ah, ah_end) ==
    IF ah # NoHighlight /\ ts > ah_end THEN NoHighlight ELSE ah

KillMatch(ts, kills) == \E k \in DOMAIN kills : Abs(ts - kills[k].ts) < KILL_TOLERANCE

KillTrigger(ts, kills, alpha) ==
    IF KillMatch(ts, kills) THEN KILL_FLASH_PEAK ELSE alpha

\* the visible decisions expire at a tick that has none of its own
DecisionUpdate_Clears(tick, d, cur) == IF tick \in DOMAIN d THEN d[tick] ELSE <<>>

DecisionUpdate(tick, d, cur) == IF tick \in DOMAIN d THEN d[tick] ELSE cur

\* the decrement is added instead of subtracted
KillFlashDecay_SignSlip(alpha) ==
    IF alpha > 0 THEN Max(0, alpha + KILL_FLASH_DECAY) ELSE alpha

KillFlashDecay(alpha) ==
    IF alpha > 0 THEN Max(0, alpha - KILL_FLASH_DECAY) ELSE alpha

\* the banner is gated with the captions' fraction
GateHighlight_AsCaptions(h, ah) ==
    IF h * 10 < HOLD_FRAMES_PER_GAME_FRAME * 8 THEN ah ELSE NoHighlight

\* hi < HOLD_FRAMES_PER_GAME_FRAME * 0.7 and hi < HOLD_FRAMES_PER_GAME_FRAME * 0.8
\* for an integer hi (45 * 0.7 evaluates to 31.499999999999996, 45 * 0.8 to 36.0)
GateHighlight(h, ah) ==
    IF h * 10 < HOLD_FRAMES_PER_GAME_FRAME * 7 THEN ah ELSE NoHighlight

\* the captions are gated with the banner's fraction
GateDecisions_AsBanner(h, cur) ==
    IF h * 10 < HOLD_FRAMES_PER_GAME_FRAME * 7 THEN cur ELSE <<>>

GateDecisions(h, cur) ==
    IF h * 10 < HOLD_FRAMES_PER_GAME_FRAME * 8 THEN cur ELSE <<>>

\* ---- Rasterizer ---------------------------------------------------------
NoArgs ==
    [kind |-> "none", frame_data |-> [timestamp |-> 0], frame_idx |-> 0,
     total_frames |-> 0, active_highlight |-> NoHighlight, kill_flash |-> 0,
     decisions |-> <<>>]

NoImage ==
    [kind |-> "none", timestamp |-> 0, frame_idx |-> 0, total_frames |-> 0,
     banner |-> NoHighlight, flash |-> 0, panel |-> <<>>]

\* the panel takes one caption too many
DecisionPanel_OneMore(decisions) ==
    SubSeq(decisions, 1, Min(DECISION_PANEL_CAP + 1, Len(decisions)))

\* for i, dec in enumerate(decisions[:2])
DecisionPanel(decisions) ==
    SubSeq(decisions, 1, Min(DECISION_PANEL_CAP, Len(decisions)))

\* what render_frame draws of its arguments
render_frame(args) ==
    [kind |-> "battle",
     timestamp |-> Get(args.frame_data.timestamp, 0),
     frame_idx |-> args.frame_idx,
     total_frames |-> args.total_frames,
     banner |-> args.active_highlight,
     flash |-> IF args.kill_flash > 0 THEN args.kill_flash ELSE 0,
     panel |-> DecisionPanel(args.decisions)]

\* render_intro_frame / render_outro_frame: a card with its own fade timer
render_card(kind, frame_idx, total) ==
    [kind |-> kind, timestamp |-> 0, frame_idx |-> frame_idx, total_frames |-> total,
     banner |-> NoHighlight, flash |-> 0, panel |-> <<>>]

card_args(kind, frame_idx, total) ==
    [kind |-> kind, frame_data |-> [timestamp |-> 0], frame_idx |-> frame_idx,
     total_frames |-> total, active_highlight |-> NoHighlight, kill_flash |-> 0,
     decisions |-> <<>>]

\* ---- state --------------------------------------------------------------
VARIABLES
    nreplays,            \* len(replays) of main()
    main_i,              \* main(): 1-based index of the replay of the current iteration
    replay,              \* main(): the replay of the current iteration
    pc,                  \* position in main() / generate_video()
    success,             \* main(): the value generate_video returned
    generated,           \* main(): the success list
    manifest,            \* manifest.json
    videos,              \* replays whose output file the encoder has written
    reported,            \* the outcome message generate_video printed
    encoder_calls,       \* encoder invocations for the current replay
    render_calls,        \* rasterizer calls that returned for the current replay
    raised_at,           \* output index of the frame whose rendering raised
    hl_timeline, decisions_by_tick, kill_events, total_video_frames,
    tmpdir, tmpfiles,    \* scratch storage and the frame indices saved in it
    frame_count, i, gi, hi,
    active_highlight, active_highlight_end, kill_flash, current_decisions,
    render_args,         \* the arguments of the latest rasterizer call
    frame_img            \* the latest frame held in scratch storage

main_vars == <<nreplays, main_i, replay, success, generated, manifest, videos>>
index_vars == <<hl_timeline, decisions_by_tick, kill_events, total_video_frames>>
tracker_vars == <<active_highlight, active_highlight_end, kill_flash, current_decisions>>
vars == <<nreplays, main_i, replay, pc, success, generated, manifest, videos, reported,
          encoder_calls, render_calls, raised_at, hl_timeline, decisions_by_tick,
          kill_events, total_video_frames, tmpdir, tmpfiles, frame_count, i, gi, hi,
          active_highlight, active_highlight_end, kill_flash, current_decisions,
          render_args, frame_img>>

frames_data == replay.frames

Init ==
    /\ nreplays = MaxReplays
    /\ main_i = 0
    /\ replay = NoReplay
    /\ pc = "main"
    /\ success = FALSE
    /\ generated = <<>>
    /\ manifest = [written |-> FALSE, records |-> <<>>]
    /\ videos = {}
    /\ reported = "none"
    /\ encoder_calls = 0
    /\ render_calls = 0
    /\ raised_at = Missing
    /\ hl_timeline = <<>>
    /\ decisions_by_tick = <<>>
    /\ kill_events = <<>>
    /\ total_video_frames = 0
    /\ tmpdir = "none"
    /\ tmpfiles = {}
    /\ frame_count = 0
    /\ i = 0
    /\ gi = 0
    /\ hi = 0
    /\ active_highlight = NoHighlight
    /\ active_highlight_end = 0
    /\ kill_flash = 0
    /\ current_decisions = <<>>
    /\ render_args = NoArgs
    /\ frame_img = NoImage

\* the indexes and the tracker are kept in module-level variables that
\* outlive the call
LocalsGone_StateSurvives ==
    /\ UNCHANGED <<hl_timeline, decisions_by_tick, kill_events, active_highlight,
                   active_highlight_end, kill_flash, current_decisions>>
    /\ total_video_frames' = 0
    /\ frame_count' = 0
    /\ i' = 0
    /\ gi' = 0
    /\ hi' = 0
    /\ render_args' = NoArgs

\* the locals of generate_video cease to exist when it returns or raises
LocalsGone ==
    /\ hl_timeline' = <<>>
    /\ decisions_by_tick' = <<>>
    /\ kill_events' = <<>>
    /\ total_video_frames' = 0
    /\ frame_count' = 0
    /\ i' = 0
    /\ gi' = 0
    /\ hi' = 0
    /\ active_highlight' = NoHighlight
    /\ active_highlight_end' = 0
    /\ kill_flash' = 0
    /\ current_decisions' = <<>>
    /\ render_args' = NoArgs

\* main() lines 722-725: the next replay of the batch is bound and
\* generate_video is called with it
NextReplay ==
    /\ pc = "main"
    /\ main_i < nreplays
    /\ replay' \in Replays
    /\ main_i' = main_i + 1
    /\ success' = FALSE
    /\ reported' = "none"
    /\ encoder_calls' = 0
    /\ render_calls' = 0
    /\ raised_at' = Missing
    /\ tmpdir' = "none"
    /\ pc' = "call"
    /\ UNCHANGED <<nreplays, generated, manifest, videos, index_vars, tmpfiles, frame_count,
                   i, gi, hi, tracker_vars, render_args, frame_img>>

\* the empty-frames check is missing: the replay is scheduled like any other
SkipEmpty_Unchecked ==
    /\ pc = "call"
    /\ frames_data = <<>>
    /\ hl_timeline' = index_highlights(replay.highlights)
    /\ decisions_by_tick' = index_decisions(replay.combatLog)
    /\ kill_events' = index_kills(replay.events)
    /\ total_video_frames' = INTRO_FRAMES + OUTRO_FRAMES
    /\ tmpdir' = "open"
    /\ tmpfiles' = {}
    /\ frame_count' = 0
    /\ i' = 0
    /\ pc' = "intro"
    /\ UNCHANGED <<main_vars, reported, encoder_calls, render_calls, raised_at, gi, hi,
                   tracker_vars, render_args, frame_img>>

\* generate_video lines 564-571 and main() line 726: no frame data; back at
\* the head of the loop the loop variable is dead until it is bound again
SkipEmpty ==
    /\ pc = "call"
    /\ frames_data = <<>>
    /\ reported' = "no_frames"
    /\ success' = FALSE
    /\ replay' = NoReplay
    /\ pc' = "main"
    /\ UNCHANGED <<nreplays, main_i, generated, manifest, videos, encoder_calls,
                   render_calls, raised_at, index_vars, tmpdir, tmpfiles, frame_count, i,
                   gi, hi, tracker_vars, render_args, frame_img>>

\* generate_video lines 564-602: the indexes are built, the frame totals
\* computed and the scratch directory acquired
BeginVideo ==
    /\ pc = "call"
    /\ frames_data # <<>>
    /\ hl_timeline' = index_highlights(replay.highlights)
    /\ decisions_by_tick' = index_decisions(replay.combatLog)
    /\ kill_events' = index_kills(replay.events)
    /\ total_video_frames' =
          INTRO_FRAMES + Len(frames_data) * HOLD_FRAMES_PER_GAME_FRAME + OUTRO_FRAMES
    /\ tmpdir' = "open"
    /\ tmpfiles' = {}
    /\ frame_count' = 0
    /\ i' = 0
    /\ pc' = "intro"
    /\ UNCHANGED <<main_vars, reported, encoder_calls, render_calls, raised_at, gi, hi,
                   tracker_vars, render_args, frame_img>>

\* the frame is saved over the previous one: the counter is not advanced
SaveFrame_NoIncrement(img) ==
    /\ frame_img' = img
    /\ tmpfiles' = tmpfiles \cup {frame_count}
    /\ frame_count' = frame_count
    /\ render_calls' = render_calls + 1

\* frame_img.save(f"{tmpdir}/frame_{frame_count:06d}.jpg"); frame_count += 1
SaveFrame(img) ==
    /\ frame_img' = img
    /\ tmpfiles' = tmpfiles \cup {frame_count}
    /\ frame_count' = frame_count + 1
    /\ render_calls' = render_calls + 1

\* lines 606-609
IntroFrame ==
    /\ pc = "intro"
    /\ i < INTRO_FRAMES
    /\ render_args' = card_args("intro", i, INTRO_FRAMES)
    /\ SaveFrame(render_card("intro", i, INTRO_FRAMES))
    /\ i' = i + 1
    /\ UNCHANGED <<main_vars, pc, reported, encoder_calls, raised_at, index_vars, tmpdir,
                   gi, hi, tracker_vars>>

\* lines 613-616: the tracker starts empty
BeginBattle ==
    /\ pc = "intro"
    /\ i = INTRO_FRAMES
    /\ active_highlight' = NoHighlight
    /\ active_highlight_end' = 0
    /\ kill_flash' = 0
    /\ current_decisions' = <<>>
    /\ gi' = 0
    /\ pc' = "sample"
    /\ UNCHANGED <<main_vars, reported, encoder_calls, render_calls, raised_at, index_vars,
                   tmpdir, tmpfiles, frame_count, i, hi, render_args, frame_img>>

\* lines 618-637: the tracker's step at a sample boundary
SampleBoundary ==
    /\ pc = "sample"
    /\ gi < Len(frames_data)
    /\ LET ts == Get(frames_data[gi + 1].timestamp, 0)
           scan == HighlightScan(ts, hl_timeline, active_highlight, active_highlight_end)
       IN  /\ active_highlight' = HighlightExpire(ts, scan.hl, scan.end)
           /\ active_highlight_end' = scan.end
           /\ kill_flash' = KillTrigger(ts, kill_events, kill_flash)
           /\ current_decisions' = DecisionUpdate(gi, decisions_by_tick, current_decisions)
    /\ hi' = 0
    /\ pc' = "hold"
    /\ UNCHANGED <<main_vars, reported, encoder_calls, render_calls, raised_at, index_vars,
                   tmpdir, tmpfiles, frame_count, i, gi, render_args, frame_img>>

\* the sample drawn drifts to the next one in the second half of the hold run
game_frame_Drifts ==
    IF hi * 2 >= HOLD_FRAMES_PER_GAME_FRAME /\ gi + 2 <= Len(frames_data)
    THEN frames_data[gi + 2]
    ELSE frames_data[gi + 1]

\* line 618: for gi, game_frame in enumerate(frames_data)
game_frame == frames_data[gi + 1]

\* the position and the length of the output are passed for the progress bar
battle_args_OutputIndex(alpha) ==
    [kind |-> "battle",
     frame_data |-> game_frame,
     frame_idx |-> frame_count,
     total_frames |-> total_video_frames,
     active_highlight |-> GateHighlight(hi, active_highlight),
     kill_flash |-> alpha,
     decisions |-> GateDecisions(hi, current_decisions)]

\* lines 643-649: the arguments of render_frame for the hold frame hi, alpha
\* being the decayed kill flash
battle_args(alpha) ==
    [kind |-> "battle",
     frame_data |-> game_frame,
     frame_idx |-> gi,
     total_frames |-> Len(frames_data),
     active_highlight |-> GateHighlight(hi, active_highlight),
     kill_flash |-> alpha,
     decisions |-> GateDecisions(hi, current_decisions)]

\* the frame is rendered before the flash decays
HoldFrame_RendersBeforeDecay ==
    /\ pc = "hold"
    /\ hi < HOLD_FRAMES_PER_GAME_FRAME
    /\ kill_flash' = KillFlashDecay(kill_flash)
    /\ render_args' = battle_args(kill_flash)
    /\ SaveFrame(render_frame(battle_args(kill_flash)))
    /\ IF hi + 1 < HOLD_FRAMES_PER_GAME_FRAME
       THEN hi' = hi + 1 /\ gi' = gi /\ pc' = "hold"
       ELSE hi' = 0 /\ gi' = gi + 1 /\ pc' = "sample"
    /\ UNCHANGED <<main_vars, reported, encoder_calls, raised_at, index_vars, tmpdir, i,
                   active_highlight, active_highlight_end, current_decisions>>

\* the caption gate is applied to the tracker's set itself
HoldFrame_ClearsCaptions ==
    /\ pc = "hold"
    /\ hi < HOLD_FRAMES_PER_GAME_FRAME
    /\ kill_flash' = KillFlashDecay(kill_flash)
    /\ current_decisions' = GateDecisions(hi, current_decisions)
    /\ render_args' = battle_args(kill_flash')
    /\ SaveFrame(render_frame(battle_args(kill_flash')))
    /\ IF hi + 1 < HOLD_FRAMES_PER_GAME_FRAME
       THEN hi' = hi + 1 /\ gi' = gi /\ pc' = "hold"
       ELSE hi' = 0 /\ gi' = gi + 1 /\ pc' = "sample"
    /\ UNCHANGED <<main_vars, reported, encoder_calls, raised_at, index_vars, tmpdir, i,
                   active_highlight, active_highlight_end>>

\* lines 639-651: one hold frame
HoldFrame ==
    /\ pc = "hold"
    /\ hi < HOLD_FRAMES_PER_GAME_FRAME
    /\ kill_flash' = KillFlashDecay(kill_flash)
    /\ render_args' = battle_args(kill_flash')
    /\ SaveFrame(render_frame(battle_args(kill_flash')))
    /\ IF hi + 1 < HOLD_FRAMES_PER_GAME_FRAME
       THEN hi' = hi + 1 /\ gi' = gi /\ pc' = "hold"
       ELSE hi' = 0 /\ gi' = gi + 1 /\ pc' = "sample"
    /\ UNCHANGED <<main_vars, reported, encoder_calls, raised_at, index_vars, tmpdir, i,
                   active_highlight, active_highlight_end, current_decisions>>

\* the battle loop stops one sample short
BeginOutro_OneShort ==
    /\ pc = "sample"
    /\ gi = Len(frames_data) - 1
    /\ i' = 0
    /\ pc' = "outro"
    /\ UNCHANGED <<main_vars, reported, encoder_calls, render_calls, raised_at, index_vars,
                   tmpdir, tmpfiles, frame_count, gi, hi, tracker_vars, render_args,
                   frame_img>>

\* line 655: the battle loop is exhausted
BeginOutro ==
    /\ pc = "sample"
    /\ gi = Len(frames_data)
    /\ i' = 0
    /\ pc' = "outro"
    /\ UNCHANGED <<main_vars, reported, encoder_calls, render_calls, raised_at, index_vars,
                   tmpdir, tmpfiles, frame_count, gi, hi, tracker_vars, render_args,
                   frame_img>>

\* lines 655-658
OutroFrame ==
    /\ pc = "outro"
    /\ i < OUTRO_FRAMES
    /\ render_args' = card_args("outro", i, OUTRO_FRAMES)
    /\ SaveFrame(render_card("outro", i, OUTRO_FRAMES))
    /\ i' = i + 1
    /\ UNCHANGED <<main_vars, pc, reported, encoder_calls, raised_at, index_vars, tmpdir,
                   gi, hi, tracker_vars>>

\* the exception is swallowed and the frame is rendered again
RenderRaises_Swallowed ==
    /\ \/ pc = "intro" /\ i < INTRO_FRAMES
       \/ pc = "hold" /\ hi < HOLD_FRAMES_PER_GAME_FRAME
       \/ pc = "outro" /\ i < OUTRO_FRAMES
    /\ raised_at' = frame_count
    /\ UNCHANGED <<main_vars, pc, reported, encoder_calls, render_calls, index_vars, tmpdir,
                   tmpfiles, frame_count, i, gi, hi, tracker_vars, render_args, frame_img>>

\* a render call (or the save of its image) raises: the with block releases
\* the scratch directory and the exception leaves generate_video and main(),
\* which has no handler: the process ends and main()'s variables with it
RenderRaises ==
    /\ \/ pc = "intro" /\ i < INTRO_FRAMES
       \/ pc = "hold" /\ hi < HOLD_FRAMES_PER_GAME_FRAME
       \/ pc = "outro" /\ i < OUTRO_FRAMES
    /\ raised_at' = frame_count
    /\ tmpdir' = "released"
    /\ tmpfiles' = {}
    /\ frame_img' = NoImage
    /\ LocalsGone
    /\ replay' = NoReplay
    /\ success' = FALSE
    /\ generated' = <<>>
    /\ pc' = "crashed"
    /\ UNCHANGED <<nreplays, main_i, manifest, videos, reported, encoder_calls,
                   render_calls>>

\* lines 661-673: subprocess.run(ffmpeg ...) over the saved frames
InvokeEncoder ==
    /\ pc = "outro"
    /\ i = OUTRO_FRAMES
    /\ encoder_calls' = encoder_calls + 1
    /\ pc' = "ffmpeg"
    /\ UNCHANGED <<main_vars, reported, render_calls, raised_at, index_vars, tmpdir,
                   tmpfiles, frame_count, i, gi, hi, tracker_vars, render_args, frame_img>>

\* the failure return leaves the scratch directory behind
EncodeFails_Leaks ==
    /\ pc = "ffmpeg"
    /\ reported' = "ffmpeg_error"
    /\ success' = FALSE
    /\ LocalsGone
    /\ replay' = NoReplay
    /\ pc' = "main"
    /\ UNCHANGED <<nreplays, main_i, generated, manifest, videos, encoder_calls,
                   render_calls, raised_at, frame_img, tmpdir, tmpfiles>>

\* the failed encoding is tried again
EncodeFails_Retries ==
    /\ pc = "ffmpeg"
    /\ encoder_calls' = encoder_calls + 1
    /\ UNCHANGED <<main_vars, pc, reported, render_calls, raised_at, index_vars, tmpdir,
                   tmpfiles, frame_count, i, gi, hi, tracker_vars, render_args, frame_img>>

\* lines 674-676 and main() line 726: non-zero completion
EncodeFails ==
    /\ pc = "ffmpeg"
    /\ reported' = "ffmpeg_error"
    /\ success' = FALSE
    /\ tmpdir' = "released"
    /\ tmpfiles' = {}
    /\ frame_img' = NoImage
    /\ LocalsGone
    /\ replay' = NoReplay
    /\ pc' = "main"
    /\ UNCHANGED <<nreplays, main_i, generated, manifest, videos, encoder_calls,
                   render_calls, raised_at>>

\* lines 678-680 and main() lines 726-732: the video is written
EncodeSucceeds ==
    /\ pc = "ffmpeg"
    /\ videos' = videos \cup {main_i}
    /\ reported' = "saved"
    /\ success' = TRUE
    /\ generated' = Append(generated, main_i)
    /\ tmpdir' = "released"
    /\ tmpfiles' = {}
    /\ frame_img' = NoImage
    /\ LocalsGone
    /\ replay' = NoReplay
    /\ pc' = "main"
    /\ UNCHANGED <<nreplays, main_i, manifest, encoder_calls, render_calls, raised_at>>

\* main() lines 734-736: the manifest is written after the loop
WriteManifest ==
    /\ pc = "main"
    /\ main_i = nreplays
    /\ manifest' = [written |-> TRUE, records |-> generated]
    /\ pc' = "done"
    /\ UNCHANGED <<nreplays, main_i, replay, success, generated, videos, reported,
                   encoder_calls, render_calls, raised_at, index_vars, tmpdir, tmpfiles,
                   frame_count, i, gi, hi, tracker_vars, render_args, frame_img>>

Next ==
    \/ NextReplay
    \/ SkipEmpty
    \/ BeginVideo
    \/ IntroFrame
    \/ BeginBattle
    \/ SampleBoundary
    \/ HoldFrame
    \/ BeginOutro
    \/ OutroFrame
    \/ RenderRaises
    \/ InvokeEncoder
    \/ EncodeFails
    \/ EncodeSucceeds
    \/ WriteManifest

Spec == Init /\ [][Next]_vars

\* ---- claims -------------------------------------------------------------
N == Len(frames_data)

\* C1: when the encoder is invoked for a replay with N >= 1 samples, the
\* number of frames rendered and saved to scratch storage is exactly
\* INTRO_FRAMES + N * HOLD_FRAMES_PER_GAME_FRAME + OUTRO_FRAMES = 90 + 45 * N + 120,
\* which is the precomputed total_video_frames
C1_FrameCountExact ==
    pc = "ffmpeg" =>
        /\ N >= 1
        /\ render_calls = 90 + 45 * N + 120
        /\ Cardinality(tmpfiles) = 90 + 45 * N + 120
        /\ frame_count = INTRO_FRAMES + N * HOLD_FRAMES_PER_GAME_FRAME + OUTRO_FRAMES
        /\ frame_count = total_video_frames

C1_Witness == pc = "ffmpeg" /\ N = 1 /\ frame_count = 255

\* C2: for a replay without frames generate_video renders nothing, acquires
\* no scratch storage, never invokes the encoder and returns failure (no
\* frame data); nothing is added to the success list and main() is back at
\* the head of its loop, where the next replay of the batch is taken
C2_EmptyReplaySkipped ==
    /\ [][(pc = "call" /\ replay.frames = <<>>) =>
            /\ pc' = "main"
            /\ reported' = "no_frames"
            /\ ~success'
            /\ render_calls' = 0
            /\ encoder_calls' = 0
            /\ tmpdir' = "none" /\ tmpfiles' = {} /\ frame_img' = NoImage
            /\ generated' = generated /\ videos' = videos /\ main_i' = main_i]_vars
    /\ [](reported = "no_frames" =>
            /\ render_calls = 0
            /\ encoder_calls = 0
            /\ main_i \notin videos
            /\ \/ pc = "main"
               \/ pc = "done" /\ main_i = nreplays)

C2_Witness ==
    /\ main_i = 1 /\ nreplays > 1
    /\ pc = "main" /\ reported = "no_frames" /\ ~success /\ render_calls = 0

\* a kill event of the replay within the tolerance of sample time t
KillNear(t) ==
    \E k \in DOMAIN replay.events :
        /\ replay.events[k].type = "kill"
        /\ Abs(t - replay.events[k].timestamp) < 3000

\* the step renders a battle frame right after another battle frame
BattleFrameStep ==
    /\ render_args.kind = "battle"
    /\ render_args'.kind = "battle"
    /\ frame_count' = frame_count + 1

\* the step's frame is the first of a sample at which a kill trigger fires
CrossesKillTrigger ==
    /\ render_args'.frame_idx # render_args.frame_idx
    /\ KillNear(render_args'.frame_data.timestamp)

\* C3: the kill-flash intensity handed to the rasterizer does not increase
\* from one battle frame to the next unless a kill trigger fires between
\* them, and the intensity is never negative
C3_FlashNonIncreasing ==
    /\ [](kill_flash >= 0 /\ render_args.kill_flash >= 0)
    /\ [][(BattleFrameStep /\ ~CrossesKillTrigger)
            => render_args'.kill_flash <= render_args.kill_flash]_vars

C3_Witness ==
    /\ render_args.kind = "battle"
    /\ render_args.kill_flash = 40
    /\ render_args.frame_idx = 1

\* the time of the sample whose hold run is being rendered
SampleTime == frames_data[gi + 1].timestamp

\* C4 (as claimed): a highlight whose window [timestamp, timestamp + duration)
\* has elapsed at a sample's timestamp is not the highlight handed to the
\* rasterizer for any hold frame of that sample or of a later one
C4_ElapsedNeverShown ==
    render_args.kind = "battle" =>
        \A k \in DOMAIN replay.highlights :
            LET H == replay.highlights[k]
            IN  (/\ H.timestamp # Missing
                 /\ render_args.frame_data.timestamp >= H.timestamp + H.duration)
                    => render_args.active_highlight # H

\* the entries of the highlight index within the tolerance of the sample time
InTolerance(k) == Abs(SampleTime - hl_timeline[k].ts) < 5000

SeveralInTolerance ==
    \E j, k \in DOMAIN hl_timeline : j < k /\ InTolerance(j) /\ InTolerance(k)

\* C5 (as claimed): of several indexed highlights within the tolerance of a
\* sample, the one found last in the scan order of the index is activated
C5_LastMatchWins ==
    (pc = "hold" /\ SeveralInTolerance) =>
        \E k \in DOMAIN hl_timeline :
            /\ InTolerance(k)
            /\ \A j \in DOMAIN hl_timeline : InTolerance(j) => j <= k
            /\ active_highlight = hl_timeline[k].hl

\* C5 (amended): of several indexed highlights within the tolerance of a
\* sample, exactly one is activated, the one found first in the scan order
\* of the index
C5_FirstMatchWins ==
    (pc = "hold" /\ SeveralInTolerance) =>
        /\ \E k \in DOMAIN hl_timeline :
            /\ InTolerance(k)
            /\ \A j \in DOMAIN hl_timeline : InTolerance(j) => k <= j
            /\ active_highlight = hl_timeline[k].hl
        /\ Cardinality({k \in DOMAIN hl_timeline :
                            hl_timeline[k].hl = active_highlight}) = 1
        /\ render_args.kind = "battle" /\ render_args.frame_idx = gi
                => render_args.active_highlight \in {active_highlight, NoHighlight}

C5_Witness ==
    /\ pc = "hold" /\ SeveralInTolerance
    /\ render_args.kind = "battle" /\ render_args.frame_idx = gi
    /\ render_args.active_highlight = hl_timeline[1].hl

\* the decision entries the combat log holds for a tick, in log order
TickDecisions(tick) ==
    SelectSeq(replay.combatLog, LAMBDA e : e.type = "decision" /\ e.tick = tick)

FirstTwo(s) == [k \in 1..(IF Len(s) < 2 THEN Len(s) ELSE 2) |-> s[k]]

\* C6 (as claimed): at a sample whose tick has decisions the set kept by the
\* tracker and handed to the rasterizer has at most 2 entries, the first of
\* that tick in log order
C6_TrackerCapped ==
    (pc = "hold" /\ TickDecisions(gi) # <<>>) =>
        /\ Len(current_decisions) <= 2
        /\ current_decisions = FirstTwo(TickDecisions(gi))
        /\ render_args.kind = "battle" /\ render_args.frame_idx = gi
                => Len(render_args.decisions) <= 2

\* C6 (amended): at a sample whose tick has decisions the tracker keeps, and
\* hands to the rasterizer, all entries of that tick in log order; the
\* rasterizer draws at most 2 captions, the first entries of that tick in
\* log order
C6_PanelCapped ==
    /\ (pc = "hold" /\ TickDecisions(gi) # <<>>) => current_decisions = TickDecisions(gi)
    /\ (render_args.kind = "battle" /\ TickDecisions(render_args.frame_idx) # <<>>) =>
        /\ render_args.decisions \in {TickDecisions(render_args.frame_idx), <<>>}
        /\ frame_img.panel = FirstTwo(render_args.decisions)
        /\ Len(frame_img.panel) <= 2

C6_Witness ==
    /\ render_args.kind = "battle"
    /\ Len(TickDecisions(render_args.frame_idx)) = 3
    /\ Len(render_args.decisions) = 3
    /\ Len(frame_img.panel) = 2

\* the hold-frame index of the latest battle frame
LastHi ==
    frame_count - 1 - INTRO_FRAMES - HOLD_FRAMES_PER_GAME_FRAME * render_args.frame_idx

\* C7: in the hold run of a sample whose tick has decisions, the captions
\* are handed to the rasterizer (and drawn) at hold-frame indices 0..35 and
\* at no other hold frame of the run (36..44)
C7_CaptionWindow ==
    (render_args.kind = "battle" /\ TickDecisions(render_args.frame_idx) # <<>>) =>
        /\ LastHi \in 0..44
        /\ LastHi \in 0..35 =>
              /\ render_args.decisions = TickDecisions(render_args.frame_idx)
              /\ frame_img.panel # <<>>
        /\ LastHi \in 36..44 =>
              /\ render_args.decisions = <<>>
              /\ frame_img.panel = <<>>

C7_Witness ==
    /\ render_args.kind = "battle" /\ TickDecisions(render_args.frame_idx) # <<>>
    /\ LastHi = 36 /\ render_args.decisions = <<>>

\* the success list a batch should end with: the replays with a video, in
\* input order
RECURSIVE Ascending(_)
Ascending(S) ==
    IF S = {} THEN <<>>
    ELSE LET m == CHOOSE x \in S : \A y \in S : y <= x
         IN  Append(Ascending(S \ {m}), m)

\* C8 (as claimed): no failure of a replay aborts the batch: when main()
\* stops, every replay of the batch has been processed and the manifest holds
\* one record per replay that succeeded, in input order, and no other
C8_BatchNeverAborted ==
    pc \in {"done", "crashed"} =>
        /\ main_i = nreplays
        /\ manifest.written
        /\ manifest.records = Ascending(videos)

\* C9: when the rendering of the frame at output index k fails, exactly the
\* frames 0..k-1 have been rendered and none is rendered afterwards, the
\* encoder is not invoked for the replay and no video is written for it
C9_NoPartialVideo ==
    raised_at # Missing =>
        /\ render_calls = raised_at
        /\ encoder_calls = 0
        /\ main_i \notin videos
        /\ pc = "crashed"

C9_Witness ==
    /\ raised_at = INTRO_FRAMES + HOLD_FRAMES_PER_GAME_FRAME + 1
    /\ pc = "crashed"
    /\ render_calls = raised_at

\* C10: the scratch storage is held exactly while generate_video is inside
\* its with block and is released, with nothing left in it, on every way
\* out: success, encoder failure and rendering failure; when the encoder
\* fails, generate_video reports the encoder's error, returns failure and has
\* invoked the encoder exactly once
C10_ScratchReleased ==
    /\ pc \in {"intro", "sample", "hold", "outro", "ffmpeg"} => tmpdir = "open"
    /\ pc \in {"main", "done", "crashed"} => (tmpdir # "open" /\ tmpfiles = {})
    /\ reported = "saved" => (tmpdir = "released" /\ encoder_calls = 1 /\ success)
    /\ raised_at # Missing => tmpdir = "released"
    /\ reported = "ffmpeg_error" =>
          /\ tmpdir = "released"
          /\ encoder_calls = 1
          /\ ~success
          /\ main_i \notin videos

C10_Witness ==
    /\ reported = "ffmpeg_error" /\ pc = "main" /\ tmpdir = "released"
    /\ render_calls = 255 /\ tmpfiles = {}

\* the frames a replay with N samples consists of
TotalFrames == INTRO_FRAMES + N * HOLD_FRAMES_PER_GAME_FRAME + OUTRO_FRAMES

\* C11: the encoder is invoked at most once for a replay, and only when all
\* intro, battle and outro frames of the replay are rendered and saved; no
\* frame is rendered once the encoder has been invoked, and the next replay
\* is taken only when the call for the current one has returned
C11_EncodeAfterAllFrames ==
    /\ [](encoder_calls <= 1)
    /\ [](pc = "ffmpeg" =>
            /\ encoder_calls = 1
            /\ render_calls = TotalFrames
            /\ tmpfiles = 0..(TotalFrames - 1))
    /\ [][render_calls' > render_calls =>
            /\ encoder_calls = 0 /\ encoder_calls' = 0
            /\ main_i' = main_i]_vars
    /\ [][encoder_calls' > encoder_calls => (pc = "outro" /\ i = OUTRO_FRAMES)]_vars
    /\ [][main_i' # main_i => (pc = "main" /\ tmpdir # "open" /\ main_i' = main_i + 1)]_vars

C11_Witness ==
    /\ pc = "ffmpeg" /\ main_i = 2 /\ 1 \in videos
    /\ encoder_calls = 1 /\ render_calls = TotalFrames

\* the output index of the latest frame
LastIndex == frame_count - 1

\* C12: the frames are saved under the indices 0, 1, 2, ... without gap,
\* duplicate or reordering: the k-th frame rendered is saved under index k,
\* the intro frames come first, then the hold frames of sample 0, of sample
\* 1, ..., then the outro frames
C12_StrictIndexOrder ==
    /\ [](tmpdir = "open" =>
            /\ tmpfiles = 0..(frame_count - 1)
            /\ render_calls = frame_count
            /\ frame_img.kind = "none" <=> frame_count = 0
            /\ frame_img.kind = "intro" =>
                  /\ LastIndex < INTRO_FRAMES
                  /\ frame_img.frame_idx = LastIndex
            /\ frame_img.kind = "battle" =>
                  /\ LastIndex >= INTRO_FRAMES
                  /\ LastIndex < INTRO_FRAMES + N * HOLD_FRAMES_PER_GAME_FRAME
                  /\ frame_img.frame_idx = (LastIndex - INTRO_FRAMES) \div 45
            /\ frame_img.kind = "outro" =>
                  /\ LastIndex >= INTRO_FRAMES + N * HOLD_FRAMES_PER_GAME_FRAME
                  /\ frame_img.frame_idx =
                        LastIndex - INTRO_FRAMES - N * HOLD_FRAMES_PER_GAME_FRAME)
    /\ [][(tmpdir = "open" /\ tmpdir' = "open" /\ frame_img' # frame_img) =>
            /\ frame_count' = frame_count + 1
            /\ frame_count \notin tmpfiles
            /\ tmpfiles' = tmpfiles \cup {frame_count}]_vars

C12_Witness ==
    /\ tmpdir = "open" /\ N = 2
    /\ frame_img.kind = "outro" /\ frame_img.frame_idx = 0
    /\ LastIndex = 180

\* C13: every hold frame of sample gi draws sample gi itself: all battle
\* frames that map to the same sample index are handed the same sample
C13_HoldFrameInvariant ==
    /\ [](render_args.kind = "battle" =>
            /\ render_args.frame_idx = (LastIndex - INTRO_FRAMES) \div 45
            /\ render_args.frame_data = frames_data[render_args.frame_idx + 1]
            /\ frame_img.timestamp = frames_data[render_args.frame_idx + 1].timestamp)
    /\ [][(render_args.kind = "battle" /\ render_args'.kind = "battle"
              /\ render_args'.frame_idx = render_args.frame_idx)
            => render_args'.frame_data = render_args.frame_data]_vars

C13_Witness ==
    /\ render_args.kind = "battle" /\ render_args.frame_idx = 0
    /\ LastHi = 44
    /\ N = 2 /\ frames_data[1] # frames_data[2]
    /\ render_args.frame_data = frames_data[1]

\* C14 (as claimed): a highlight or kill event without timestamp and a
\* decision entry without tick are left out of the indexes, and so never
\* become the active highlight, trigger the kill flash or show as a caption
C14_MalformedSkipped ==
    /\ \A k \in DOMAIN replay.highlights :
        replay.highlights[k].timestamp = Missing =>
            /\ \A j \in DOMAIN hl_timeline : hl_timeline[j].hl # replay.highlights[k]
            /\ active_highlight # replay.highlights[k]
            /\ render_args.active_highlight # replay.highlights[k]
    /\ \A k \in DOMAIN replay.events :
        (replay.events[k].type = "kill" /\ replay.events[k].timestamp = Missing) =>
            \A j \in DOMAIN kill_events : kill_events[j].evt # replay.events[k]
    /\ \A k \in DOMAIN replay.combatLog :
        replay.combatLog[k].tick = Missing =>
            /\ \A t \in DOMAIN decisions_by_tick :
                  \A j \in DOMAIN decisions_by_tick[t] :
                      decisions_by_tick[t][j] # replay.combatLog[k]
            /\ \A j \in DOMAIN current_decisions :
                  current_decisions[j] # replay.combatLog[k]
            /\ \A j \in DOMAIN render_args.decisions :
                  render_args.decisions[j] # replay.combatLog[k]

\* C15 (as claimed): a battle frame's descriptor carries the zero-based index
\* of the output frame and the total count of output frames
C15_OutputIndexPassed ==
    render_args.kind = "battle" =>
        /\ render_args.frame_idx = LastIndex
        /\ render_args.total_frames = TotalFrames

\* C15 (amended): a battle frame's descriptor carries the zero-based index of
\* the sample being held and the count of samples; the index is the same at
\* all hold frames of a sample and one more at the first hold frame of the
\* next sample
C15_SampleIndexPassed ==
    /\ [](render_args.kind = "battle" =>
            /\ render_args.frame_idx = (LastIndex - INTRO_FRAMES) \div 45
            /\ render_args.total_frames = N
            /\ frame_img.frame_idx = render_args.frame_idx
            /\ frame_img.total_frames = N)
    /\ [][BattleFrameStep =>
            \/ render_args'.frame_idx = render_args.frame_idx /\ LastHi' = LastHi + 1
            \/ render_args'.frame_idx = render_args.frame_idx + 1
                  /\ LastHi = 44 /\ LastHi' = 0]_vars

C15_Witness ==
    /\ render_args.kind = "battle" /\ render_args.frame_idx = 1
    /\ render_args.total_frames = 2
    /\ LastIndex = 136

\* C16 (as claimed): when a highlight is activated at a sample, the stored
\* end-time is the highlight's own timestamp plus its duration
C16_EndFromHighlightTime ==
    (/\ pc = "hold"
     /\ \E k \in DOMAIN hl_timeline : InTolerance(k)
     /\ active_highlight # NoHighlight
     /\ active_highlight.timestamp # Missing) =>
        active_highlight_end = active_highlight.timestamp + active_highlight.duration

\* a reference tracker that clears an expired highlight first and scans the
\* index for a highlight within the tolerance afterwards
RefMatches(t) == {k \in DOMAIN hl_timeline : Abs(t - hl_timeline[k].ts) < 5000}

RefStep(st, t) ==
    LET kept == IF st.hl # NoHighlight /\ t > st.end THEN NoHighlight ELSE st.hl
    IN  IF RefMatches(t) = {}
        THEN [hl |-> kept, end |-> st.end]
        ELSE LET k == CHOOSE x \in RefMatches(t) : \A y \in RefMatches(t) : x <= y
             IN  [hl |-> hl_timeline[k].hl, end |-> t + hl_timeline[k].dur]

RECURSIVE RefTracker(_)
RefTracker(n) ==
    IF n = 0 THEN [hl |-> NoHighlight, end |-> 0]
    ELSE RefStep(RefTracker(n - 1), frames_data[n].timestamp)

AllDurationsPositive == \A k \in DOMAIN hl_timeline : hl_timeline[k].dur > 0

NoMatchBoundary ==
    /\ pc = "sample" /\ pc' = "hold"
    /\ \A k \in DOMAIN hl_timeline : Abs(SampleTime - hl_timeline[k].ts) >= 5000

\* C18: at a sample without a highlight within the tolerance the active
\* highlight stays as it is when t <= end-time and is cleared when
\* t > end-time; a cleared highlight stays cleared, and nothing but a sample
\* boundary changes the highlight or its end-time
C18_PersistOrExpire ==
    /\ [][NoMatchBoundary =>
            /\ active_highlight_end' = active_highlight_end
            /\ SampleTime <= active_highlight_end => active_highlight' = active_highlight
            /\ SampleTime > active_highlight_end => active_highlight' = NoHighlight
            /\ active_highlight = NoHighlight => active_highlight' = NoHighlight]_vars
    /\ [][(pc = "hold" /\ pc' \in {"hold", "sample"}) =>
            /\ active_highlight' = active_highlight
            /\ active_highlight_end' = active_highlight_end]_vars

C18_Witness ==
    /\ pc = "hold" /\ gi = 1
    /\ \A k \in DOMAIN hl_timeline : Abs(SampleTime - hl_timeline[k].ts) >= 5000
    /\ active_highlight # NoHighlight
    /\ SampleTime <= active_highlight_end

\* C19: at a sample boundary the flash intensity is set to the peak 80 when
\* an event of type kill lies within 3000 ms of the sample time, and is left
\* as the previous hold run left it otherwise; events of another type do not
\* set it
C19_KillTrigger ==
    [][(pc = "sample" /\ pc' = "hold") =>
          kill_flash' = IF KillNear(SampleTime) THEN 80 ELSE kill_flash]_vars

C19_Witness ==
    /\ pc = "hold" /\ hi = 0 /\ gi = 1
    /\ kill_flash = 80
    /\ KillNear(SampleTime)

\* C20: in a hold run the active highlight is handed to the rasterizer at
\* the hold-frame indices 0..31 (hi / 45 < 0.7) and at no later hold frame
\* of the run
C20_BannerWindow ==
    render_args.kind = "battle" =>
        /\ LastHi \in 0..31 =>
              /\ render_args.active_highlight = active_highlight
              /\ frame_img.banner = active_highlight
        /\ LastHi \in 32..44 =>
              /\ render_args.active_highlight = NoHighlight
              /\ frame_img.banner = NoHighlight

C20_Witness ==
    /\ render_args.kind = "battle" /\ LastHi = 32 /\ pc = "hold"
    /\ active_highlight # NoHighlight
    /\ render_args.active_highlight = NoHighlight

\* the entries of the most recent tick at or before g that is a key of the
\* decision index
RECURSIVE LatestDecisions(_)
LatestDecisions(g) ==
    IF g < 0 THEN <<>>
    ELSE IF g \in DOMAIN decisions_by_tick THEN decisions_by_tick[g]
    ELSE LatestDecisions(g - 1)

\* C21: at the boundary of the sample with tick gi the visible decisions
\* become exactly the index's entries of gi when gi is a key of the decision
\* index and stay what they were otherwise; so the gated hold frames (hold
\* index 0..35) of every sample get the entries of the most recent tick at
\* or before it that had decisions
C21_DecisionsReplacedOrKept ==
    /\ [][(pc = "sample" /\ pc' = "hold") =>
            /\ gi \in DOMAIN decisions_by_tick => current_decisions' = decisions_by_tick[gi]
            /\ gi \notin DOMAIN decisions_by_tick => current_decisions' = current_decisions]_vars
    /\ [](pc = "hold" => current_decisions = LatestDecisions(gi))
    /\ []((render_args.kind = "battle" /\ LastHi \in 0..35) =>
            render_args.decisions = LatestDecisions(render_args.frame_idx))

C21_Witness ==
    /\ render_args.kind = "battle" /\ render_args.frame_idx = 1 /\ LastHi = 35
    /\ 1 \notin DOMAIN decisions_by_tick
    /\ 0 \in DOMAIN decisions_by_tick
    /\ render_args.decisions = decisions_by_tick[0]
    /\ frame_img.panel # <<>>

\* the step writes one output frame
OutputFrameStep == frame_count' = frame_count + 1

\* C22: a step that writes a battle frame changes, of the tracker state,
\* the kill-flash intensity only (by the decay) and advances the frame
\* counter; the active highlight, its end-time and the visible decisions
\* change at sample boundaries only; a step that writes an intro or outro
\* frame changes nothing of the tracker state
C22_OnlyFlashPerFrame ==
    /\ [][(OutputFrameStep /\ pc = "hold") =>
            /\ active_highlight' = active_highlight
            /\ active_highlight_end' = active_highlight_end
            /\ current_decisions' = current_decisions
            /\ kill_flash' \in {kill_flash, kill_flash - 4}]_vars
    /\ [][(OutputFrameStep /\ pc \in {"intro", "outro"}) =>
            tracker_vars' = tracker_vars]_vars
    /\ [][(tracker_vars' # tracker_vars /\ pc' # "crashed" /\ pc' # "main") =>
            \/ pc = "sample" /\ pc' = "hold"
            \/ pc = "hold" /\ OutputFrameStep
                  /\ <<active_highlight', active_highlight_end', current_decisions'>>
                       = <<active_highlight, active_highlight_end, current_decisions>>]_vars

C22_Witness ==
    /\ pc = "sample" /\ gi = 1 /\ render_args.kind = "battle" /\ LastHi = 44
    /\ active_highlight # NoHighlight
    /\ current_decisions # <<>>
    /\ kill_flash = 0 /\ KillNear(render_args.frame_data.timestamp)

\* the positions of the highlight records that carry timestamp t
RecordsAt(t) == {k \in DOMAIN replay.highlights : replay.highlights[k].timestamp = t}

\* the timestamps that several highlight records of the replay share
SharedTimestamps ==
    {t \in {replay.highlights[k].timestamp : k \in DOMAIN replay.highlights} :
        t # Missing /\ Cardinality(RecordsAt(t)) > 1}

LastRecordAt(t) ==
    replay.highlights[CHOOSE k \in RecordsAt(t) : \A j \in RecordsAt(t) : j <= k]

\* C23: for a timestamp that several highlight records share, the highlight
\* index holds exactly one entry, the record last in the input list; no
\* earlier record of that timestamp is the active highlight or is handed to
\* the rasterizer
C23_LastWriteWins ==
    \A t \in SharedTimestamps :
        /\ pc \in {"intro", "sample", "hold", "outro", "ffmpeg"} =>
              /\ Cardinality({k \in DOMAIN hl_timeline : hl_timeline[k].ts = t}) = 1
              /\ \A k \in DOMAIN hl_timeline :
                    hl_timeline[k].ts = t => hl_timeline[k].hl = LastRecordAt(t)
        /\ \A k \in RecordsAt(t) :
              replay.highlights[k] # LastRecordAt(t) =>
                  /\ active_highlight # replay.highlights[k]
                  /\ render_args.active_highlight # replay.highlights[k]
                  /\ frame_img.banner # replay.highlights[k]

C23_Witness ==
    /\ SharedTimestamps # {}
    /\ pc = "hold"
    /\ active_highlight.id = 2
    /\ render_args.active_highlight = active_highlight
    /\ replay.highlights[1].timestamp = replay.highlights[2].timestamp

\* the kill flash after n decay steps
RECURSIVE DecayN(_, _)
DecayN(alpha, n) == IF n = 0 THEN alpha ELSE DecayN(KillFlashDecay(alpha), n - 1)

\* the tracker state after the boundary of the n-th sample of replay r when
\* r is scheduled from the empty tracker state with indexes built from r alone
RECURSIVE TrackerAt(_, _)
TrackerAt(r, n) ==
    LET prev == IF n = 1
                THEN [hl |-> NoHighlight, end |-> 0, flash |-> 0, dec |-> <<>>]
                ELSE LET p == TrackerAt(r, n - 1)
                     IN  [p EXCEPT !.flash = DecayN(p.flash, HOLD_FRAMES_PER_GAME_FRAME)]
        ts == Get(r.frames[n].timestamp, 0)
        scan == HighlightScan(ts, index_highlights(r.highlights), prev.hl, prev.end)
    IN  [hl |-> HighlightExpire(ts, scan.hl, scan.end),
         end |-> scan.end,
         flash |-> KillTrigger(ts, index_kills(r.events), prev.flash),
         dec |-> DecisionUpdate(n - 1, index_decisions(r.combatLog), prev.dec)]

\* the descriptor of hold frame h of sample g (0-based) of replay r
Scheduled(r, g, h) ==
    LET st == TrackerAt(r, g + 1)
    IN  [kind |-> "battle",
         frame_data |-> r.frames[g + 1],
         frame_idx |-> g,
         total_frames |-> Len(r.frames),
         active_highlight |-> GateHighlight(h, st.hl),
         kill_flash |-> DecayN(st.flash, h + 1),
         decisions |-> GateDecisions(h, st.dec)]

\* C24: every battle descriptor of a replay is the one the replay alone
\* determines, whatever its position in the batch and whatever the replays
\* before it were and however they ended; the tracker starts every replay
\* empty, and at the call of generate_video nothing of an earlier replay's
\* tracker state or event indexes is left
C24_ReplaysIndependent ==
    /\ render_args.kind = "battle" =>
          render_args = Scheduled(replay, render_args.frame_idx, LastHi)
    /\ (pc = "sample" /\ gi = 0) =>
          tracker_vars = <<NoHighlight, 0, 0, <<>> >>
    /\ pc \in {"intro", "sample", "hold", "outro", "ffmpeg"} =>
          /\ hl_timeline = index_highlights(replay.highlights)
          /\ decisions_by_tick = index_decisions(replay.combatLog)
          /\ kill_events = index_kills(replay.events)
    /\ pc = "call" =>
          /\ tracker_vars = <<NoHighlight, 0, 0, <<>> >>
          /\ <<hl_timeline, decisions_by_tick, kill_events>> = << <<>>, <<>>, <<>> >>

C24_Witness ==
    /\ main_i = 2 /\ 1 \in videos
    /\ render_args.kind = "battle" /\ render_args.frame_idx = 0 /\ LastHi = 0
    /\ render_args.active_highlight # NoHighlight
    /\ render_args.kill_flash = 76
    /\ render_args.decisions # <<>>

\* C25: the flash intensity handed to the rasterizer is a multiple of 4 in
\* 0..76; in the hold run of a sample with a kill within the tolerance it is
\* 80 - 4 * (hi + 1) at hold index hi <= 19 (positive for hi in 0..18) and 0
\* from hi = 19 on; it is 0 at the end of every hold run, hence at every
\* sample boundary before the trigger check
C25_FlashProfile ==
    /\ render_args.kind = "battle" =>
          /\ render_args.kill_flash \in {4 * k : k \in 0..19}
          /\ frame_img.flash = render_args.kill_flash
          /\ KillNear(render_args.frame_data.timestamp) =>
                /\ LastHi <= 19 => render_args.kill_flash = 80 - 4 * (LastHi + 1)
                /\ LastHi >= 19 => render_args.kill_flash = 0
                /\ render_args.kill_flash > 0 <=> LastHi \in 0..18
    /\ pc = "sample" => kill_flash = 0

C25_Witness ==
    /\ render_args.kind = "battle"
    /\ KillNear(render_args.frame_data.timestamp)
    /\ LastHi = 18 /\ render_args.kill_flash = 4 /\ frame_img.flash = 4

====
